---- MODULE Spec2Model ----
(***************************************************************************)
(* Model of ch_backup.clickhouse.control.ClickhouseCTL: version-gated      *)
(* table snapshots (FREEZE), enumeration of the shadow directory, teardown *)
(* of snapshot data with retry, and ownership change of detached parts.    *)
(*                                                                         *)
(* Strings that the code takes apart are sequences: a version string is a  *)
(* sequence of characters, a filesystem path is a sequence of components   *)
(* (an absolute path starts with the component "/").                       *)
(***************************************************************************)
EXTENDS Integers, Sequences, FiniteSets, TLC

\* ------------------------------------------------------------------ bounds

\* Largest value of shadow/increment.txt the engine is driven to.
MaxGen == 3
\* Number of public calls made on one controller.
MaxCalls == 2
\* Attempts made by the retry decorator before the error is re-raised.
MaxAttempts == 3

\* --------------------------------------------------------------- versions

Digits == <<"0", "1", "2", "3", "4", "5", "6", "7", "8", "9">>

\* Code point order of the characters of a version string: "." < "0" < .. < "9".
CharOrd(ch) == IF ch = "." THEN 0 ELSE CHOOSE i \in 1..10 : Digits[i] = ch

DigitVal(ch) == CharOrd(ch) - 1

\* min_version of freeze_table: '18.16.0'
MinVersion == <<"1", "8", ".", "1", "6", ".", "0">>

\* Version strings the engine may answer GET_VERSION_SQL with.
Versions ==
    { <<"1", "8", ".", "5", ".", "0">>,
      <<"1", "8", ".", "1", "5", ".", "9">>,
      <<"1", "8", ".", "1", "0", ".", "0">>,
      <<"1", "8", ".", "1", "6">>,
      MinVersion,
      <<"1", "8", ".", "1", "6", ".", "1">>,
      <<"1", "9", ".", "1", ".", "0">>,
      <<"9", ".", "1", ".", "0">> }

\* The release numbers of a dotted version string, as parse_version reads them.
RECURSIVE ParseRelease(_, _, _)
ParseRelease(s, i, acc) ==
    IF i > Len(s) THEN <<acc>>
    ELSE IF s[i] = "." THEN <<acc>> \o ParseRelease(s, i + 1, 0)
    ELSE ParseRelease(s, i + 1, acc * 10 + DigitVal(s[i]))

\* packaging's comparison key drops the trailing zeros of the release.
RECURSIVE StripZeros(_)
StripZeros(r) ==
    IF Len(r) > 0 /\ r[Len(r)] = 0 THEN StripZeros(SubSeq(r, 1, Len(r) - 1)) ELSE r

parse_version(s) == StripZeros(ParseRelease(s, 1, 0))

Min(a, b) == IF a < b THEN a ELSE b

\* Python's tuple ordering a >= b.
TupleGE(a, b) ==
    LET n == Min(Len(a), Len(b))
        D == {i \in 1..n : a[i] # b[i]}
    IN  IF D = {} THEN Len(a) >= Len(b)
        ELSE LET k == CHOOSE i \in D : \A j \in D : i <= j IN a[k] > b[k]

\* Python's str ordering a >= b (what comparing the raw strings would give).
LexGE(a, b) ==
    LET n == Min(Len(a), Len(b))
        D == {i \in 1..n : a[i] # b[i]}
    IN  IF D = {} THEN Len(a) >= Len(b)
        ELSE LET k == CHOOSE i \in D : \A j \in D : i <= j
             IN  CharOrd(a[k]) > CharOrd(b[k])

match_ch_version_lexical(version, min_version) == LexGE(version, min_version)

\* ClickhouseCTL._match_ch_version
match_ch_version(version, min_version) ==
    TupleGE(parse_version(version), parse_version(min_version))

\* ------------------------------------------------------------------ paths

IsAbs(p) == Len(p) > 0 /\ p[1] = "/"

\* os.path.join(a, b)
Join(a, b) == IF IsAbs(b) THEN b ELSE a \o b

\* os.path.normpath of an absolute path: ".." steps up, never above "/".
RECURSIVE NormFrom(_, _, _)
NormFrom(p, i, acc) ==
    IF i > Len(p) THEN acc
    ELSE IF p[i] = ".."
         THEN NormFrom(p, i + 1, IF Len(acc) > 1 THEN SubSeq(acc, 1, Len(acc) - 1) ELSE acc)
         ELSE NormFrom(p, i + 1, Append(acc, p[i]))

Normpath(p) == NormFrom(p, 2, <<"/">>)

\* Length of the longest common component prefix of two paths.
CommonLen(a, b) ==
    LET n == Min(Len(a), Len(b))
        D == {i \in 1..n : a[i] # b[i]}
    IN  IF D = {} THEN n ELSE (CHOOSE i \in D : \A j \in D : i <= j) - 1

\* os.path.relpath(path, start) for absolute arguments.
Relpath(path, start) ==
    LET p == Normpath(path)
        s == Normpath(start)
        i == CommonLen(p, s)
    IN  [k \in 1..(Len(s) - i) |-> ".."] \o SubSeq(p, i + 1, Len(p))

\* The characters of the component names whose spelling a prefix test can see.
Chars(name) ==
    CASE name = "data" -> <<"d", "a", "t", "a">>
      [] name = "data-old" -> <<"d", "a", "t", "a", "-", "o", "l", "d">>
      [] name = "shadow" -> <<"s", "h", "a", "d", "o", "w">>
      [] name = "shadow-old" -> <<"s", "h", "a", "d", "o", "w", "-", "o", "l", "d">>
      [] OTHER -> <<name>>

SeqPrefix(a, b) == Len(a) <= Len(b) /\ SubSeq(b, 1, Len(a)) = a

\* str.startswith on the "/"-joined spelling of two absolute paths: the
\* components before the last one of the prefix are followed by a separator
\* and must be equal, the last one only has to begin the component it meets.
startswith(path, prefix) ==
    /\ Len(path) >= Len(prefix)
    /\ \A i \in 1..(Len(prefix) - 1) : path[i] = prefix[i]
    /\ SeqPrefix(Chars(prefix[Len(prefix)]), Chars(path[Len(prefix)]))

\* Directory containment: the place the path names lies below the directory.
IsUnder(path, dir) ==
    LET p == Normpath(path)
        d == Normpath(dir)
    IN  Len(p) > Len(d) /\ SubSeq(p, 1, Len(d)) = d

\* config['data_path']
root_data_path == <<"/", "r">>

\* ClickhouseCTL.__init__: self._data_path, self._shadow_data_path
data_path == Join(root_data_path, <<"data">>)

shadow_data_path == Join(root_data_path, <<"shadow">>)

increment_path == Join(shadow_data_path, <<"increment.txt">>)

\* ------------------------------------------------- engine and filesystem

\* The table every call is about.
db_name == "db"

table_name == "t"

\* Where the engine keeps the table and where it puts a snapshot of it.
engine_table_path == Join(data_path, <<db_name, table_name>>)

\* Answers the gateway may give to GET_TABLE_DATA_PATH_SQL: the table below
\* the data root, below a sibling of it, or on another disk.
TableDataPaths ==
    { engine_table_path,
      <<"/", "r", "data-old", db_name, table_name>>,
      <<"/", "o", db_name, table_name>> }

\* Partition listings the engine may give (SELECT DISTINCT partition).
PartitionLists == { <<>>, <<"202301">>, <<"202301", "202302">> }

\* The active parts of a partition.
PartsOf(partition) ==
    CASE partition = "202301" -> {"p1", "p2"}
      [] partition = "202302" -> {"p3"}
      [] OTHER -> {}

\* The files of a part (a snapshot hardlinks them, so they are the same in
\* the table and in every snapshot): content and byte length.
PartFiles(part) ==
    CASE part = "p1" -> [name \in {"checksums.txt", "data.bin"} |->
                            IF name = "checksums.txt" THEN [content |-> "m1", size |-> 1]
                            ELSE [content |-> "d1", size |-> 2]]
      [] part = "p2" -> [name \in {"checksums.txt", "data.bin"} |->
                            IF name = "checksums.txt" THEN [content |-> "m1", size |-> 1]
                            ELSE [content |-> "d2", size |-> 3]]
      [] OTHER -> [name \in {"checksums.txt", "data.bin"} |->
                            IF name = "checksums.txt" THEN [content |-> "m3", size |-> 1]
                            ELSE [content |-> "d3", size |-> 2]]

\* Paths outside the snapshot root that exist when the controller is built.
outside_path == <<"/", "o", "x">>

sibling_path == <<"/", "r", "shadow-old", "x">>

\* The snapshot directory of generation g, as the engine lays it out.
engine_shadow_path(g) ==
    Join(shadow_data_path, <<ToString(g), "data", db_name, table_name>>)

\* Spellings a caller may put into FreezedPart.path besides those a
\* freeze_table call of this run returned: an artifact of the earlier
\* snapshot, a path outside the root, a sibling of the root, and a place
\* below the root where nothing is.
ForeignPaths ==
    { Join(engine_shadow_path(1), <<"p1">>),
      outside_path,
      sibling_path,
      Join(shadow_data_path, <<"9", "gone">>) }

\* os.path.exists
exists(files, target) == Normpath(target) \in files

\* os.listdir: the names directly inside a directory.
listdir(files, target) ==
    LET d == Normpath(target)
    IN  {q[Len(q)] : q \in {f \in files : Len(f) = Len(d) + 1 /\ SubSeq(f, 1, Len(d)) = d}}

\* What an interrupted shutil.rmtree may leave: the content gone, the
\* directory itself still there.
rmtree_partial(files, target) == {f \in files : ~IsUnder(f, target)}

\* shutil.rmtree, were it to leave the directory it was given.
rmtree_keeps_target(files, target) == {f \in files : ~IsUnder(f, target)}

\* shutil.rmtree, were it to take the directory's siblings with it.
rmtree_with_siblings(files, target) ==
    LET t == Normpath(target)
    IN  {f \in files : ~IsUnder(f, SubSeq(t, 1, Len(t) - 1))}

\* What shutil.rmtree leaves when it succeeds: the path and all below it go.
rmtree(files, target) == {f \in files : ~IsUnder(f, target) /\ f # Normpath(target)}

\* All orders in which os.listdir may return a set of names.
Orders(S) ==
    {s \in [1..Cardinality(S) -> S] : \A i, j \in 1..Cardinality(S) : s[i] = s[j] => i = j}

\* --------------------------------------------------------------- exceptions

\* Failures the operating system may answer a deletion with.
OSFailures == {"PermissionError", "OSError(EBUSY)"}

\* The ones the specification calls transient.
TransientFailures == {"OSError(EBUSY)"}

\* isinstance(error, OSError)
IsOSError(error) == error \in OSFailures \cup {"FileNotFoundError"}

\* --------------------------------------------------------------------- state

Ctl == {1, 2}

VARIABLES
    fs,               \* the paths that exist
    increment,        \* content of shadow/increment.txt (0: no such file)
    table_data_path,  \* the gateway's answer to GET_TABLE_DATA_PATH_SQL
    partitions,       \* the gateway's answer to GET_TABLE_PARTITIONS_SQL
    chowned,          \* paths chown_dir_contents was called with
    rmtree_calls,     \* paths shutil.rmtree was called with
    ctls,             \* the controllers that were constructed
    ch_version,       \* self._ch_version
    engine_version,   \* what the engine answers GET_VERSION_SQL with now
    version_queries,  \* number of GET_VERSION_SQL queries each controller issued
    pc,               \* where each controller's current call stands
    op,               \* the public method being executed
    arg,              \* its path argument (teardown)
    caller,           \* the private method it delegated to
    todo,             \* _freeze_table_compat: partitions still to freeze
    freezed_parts,    \* _freeze_table_compat: freezed_parts
    path,             \* _get_freezed_parts: path
    listing,          \* _get_freezed_parts: names os.listdir returned, left to visit
    parts,            \* _get_freezed_parts: freezed_parts
    attempts,         \* executions of _remove_shadow_data by the retry decorator
    last_error,       \* what the last failed execution raised, while the call retries
    log,              \* commands and reads of the current call, in order
    calls,            \* number of public calls made so far
    fs0,              \* the paths that existed when the current call was entered
    history           \* the last two calls that returned or raised, in order

vars == <<fs, increment, table_data_path, partitions, chowned, rmtree_calls, ctls,
          ch_version, engine_version, version_queries, pc, op, arg, caller, todo, freezed_parts, path, listing, parts,
          attempts, last_error, log, calls, fs0, history>>

engine == <<table_data_path, partitions, ctls, ch_version, engine_version, version_queries>>

local == <<calls, fs0, op, arg, caller, todo, freezed_parts, path, listing, parts, attempts,
           last_error>>

\* The engine's files when the controllers are built: the table's parts and
\* one earlier snapshot of the table, generation 1.
InitialFiles(listed) ==
    LET live == UNION {PartsOf(listed[i]) : i \in 1..Len(listed)}
    IN  {data_path, outside_path, sibling_path, shadow_data_path, increment_path}
            \cup {Join(engine_table_path, <<p>>) : p \in live}
            \cup (IF live = {} THEN {}
                  ELSE {engine_shadow_path(1)}
                           \cup {Join(engine_shadow_path(1), <<p>>) : p \in live})

\* The files of an engine that has not taken a snapshot yet.
FreshFiles(listed) ==
    {data_path, outside_path, sibling_path}
        \cup {Join(engine_table_path, <<p>>) :
                  p \in UNION {PartsOf(listed[i]) : i \in 1..Len(listed)}}

\* ClickhouseCTL.__init__ for the controllers in `built`, on an engine whose
\* generation marker stands at `generation` (0: it has no marker file yet)
\* and that will be called MaxCalls - made times: the version is asked for
\* once and kept.
ConstructOn(built, versions, table_paths, listings, generation, made) ==
    /\ ctls = built
    /\ ch_version \in [Ctl -> versions]
    /\ \A c \in Ctl \ built : ch_version[c] = CHOOSE v \in versions : TRUE
    /\ engine_version = ch_version[CHOOSE c \in built : \A d \in built : d <= c]
    /\ version_queries = [c \in Ctl |-> IF c \in built THEN 1 ELSE 0]
    /\ table_data_path \in table_paths
    /\ partitions \in listings
    /\ fs = IF generation = 0 THEN FreshFiles(partitions) ELSE InitialFiles(partitions)
    /\ increment = generation
    /\ chowned = {}
    /\ rmtree_calls = {}
    /\ pc = [c \in Ctl |-> "idle"]
    /\ op = [c \in Ctl |-> "none"]
    /\ arg = [c \in Ctl |-> <<>>]
    /\ caller = [c \in Ctl |-> "none"]
    /\ todo = [c \in Ctl |-> <<>>]
    /\ freezed_parts = [c \in Ctl |-> <<>>]
    /\ path = [c \in Ctl |-> <<>>]
    /\ listing = [c \in Ctl |-> <<>>]
    /\ parts = [c \in Ctl |-> <<>>]
    /\ attempts = [c \in Ctl |-> 0]
    /\ last_error = [c \in Ctl |-> "none"]
    /\ log = [c \in Ctl |-> <<>>]
    /\ calls = [c \in Ctl |-> made]
    /\ fs0 = [c \in Ctl |-> {}]
    /\ history = [c \in Ctl |-> <<>>]

\* ClickhouseCTL.__init__ on an engine that holds one earlier snapshot.
Construct(built, versions, table_paths, listings) ==
    ConstructOn(built, versions, table_paths, listings, 1, 0)

\* One controller, on an engine older or newer than the FREEZE threshold.
Init ==
    Construct({1}, {<<"1", "8", ".", "1", "0", ".", "0">>, <<"1", "9", ".", "1", ".", "0">>},
              TableDataPaths, PartitionLists)

\* One controller, on an engine of any of the versions.
InitVersions == Construct({1}, Versions, {engine_table_path}, {<<"202301">>})



\* ------------------------------------------------------------ call protocol

\* What a call did, as a caller of the gateway and the filesystem sees it:
\* the command or read, its argument, and what came back. For a freeze
\* command that went through, `found` holds what only the engine knows: the
\* generation the command created.
Event(cmd, what, found) == [cmd |-> cmd, what |-> what, found |-> found]

Idle(c) == c \in ctls /\ pc[c] = "idle" /\ calls[c] < MaxCalls

\* A public method is entered.
Enter(c, method, argument, first) ==
    /\ Idle(c)
    /\ pc' = [pc EXCEPT ![c] = first]
    /\ op' = [op EXCEPT ![c] = method]
    /\ arg' = [arg EXCEPT ![c] = argument]
    /\ caller' = [caller EXCEPT ![c] = first]
    /\ todo' = [todo EXCEPT ![c] = <<>>]
    /\ freezed_parts' = [freezed_parts EXCEPT ![c] = <<>>]
    /\ path' = [path EXCEPT ![c] = <<>>]
    /\ listing' = [listing EXCEPT ![c] = <<>>]
    /\ parts' = [parts EXCEPT ![c] = <<>>]
    /\ attempts' = [attempts EXCEPT ![c] = 0]
    /\ last_error' = [last_error EXCEPT ![c] = "none"]
    /\ log' = [log EXCEPT ![c] = <<>>]
    /\ calls' = [calls EXCEPT ![c] = @ + 1]
    /\ fs0' = [fs0 EXCEPT ![c] = fs]
    /\ UNCHANGED <<fs, increment, chowned, rmtree_calls, engine, history>>

\* The current call returns `value` or raises `error` to its caller, `made`
\* deletion attempts after it was entered and with the files `after`.
Leave(c, status, error, value, events, made, after) ==
    /\ pc' = [pc EXCEPT ![c] = "idle"]
    /\ log' = [log EXCEPT ![c] = events]
    /\ history' = [history EXCEPT ![c] =
                      Append(IF Len(@) < 2 THEN @ ELSE Tail(@),
                             [op |-> op[c], arg |-> arg[c], status |-> status,
                              error |-> error, value |-> value, attempts |-> made,
                              log |-> events, before |-> fs0[c], after |-> after])]

Return(c, value, events) == Leave(c, "returned", "none", value, events, attempts[c], fs)

Raise(c, error, events) == Leave(c, "raised", error, <<>>, events, attempts[c], fs)

\* --------------------------------------------------------------- the engine

\* ALTER TABLE .. FREEZE [PARTITION ..] as the engine executes it: the
\* generation marker advances by one and the frozen parts are hardlinked
\* below shadow/<marker>/data/<db>/<table>.
EngineFreeze(frozen) ==
    LET g == increment + 1
        snapshot == engine_shadow_path(g)
        live == {p \in frozen : Join(engine_table_path, <<p>>) \in fs}
    IN  /\ increment < MaxGen
        /\ increment' = g
        /\ fs' = fs \cup {shadow_data_path, increment_path}
                    \cup (IF live = {} THEN {}
                          ELSE {snapshot} \cup {Join(snapshot, <<p>>) : p \in live})

AllParts == UNION {PartsOf(partitions[i]) : i \in 1..Len(partitions)}

\* ------------------------------------------------------------- freeze_table

freeze_table_whole_path(version) == match_ch_version(version, MinVersion)

\* self._ch_version, were it asked from the engine at every use.
ch_version_requeried(c) == engine_version

\* self._ch_version: the attribute __init__ assigned.
ch_version_read(c) == ch_version[c]

\* freeze_table: the strategy is chosen from the cached version.
freeze_table(c) ==
    Enter(c, "freeze_table", <<>>,
          IF freeze_table_whole_path(ch_version_read(c)) THEN "_freeze_table"
          ELSE "_freeze_table_compat")

\* _freeze_table: one FREEZE of the whole table, then one enumeration.
FreezeTable(c) ==
    /\ pc[c] = "_freeze_table"
    /\ \/ /\ EngineFreeze(AllParts)
          /\ pc' = [pc EXCEPT ![c] = "_get_freezed_parts"]
          /\ log' = [log EXCEPT ![c] =
                        Append(@, Event("FREEZE", <<>>, <<ToString(increment + 1)>>))]
          /\ UNCHANGED <<chowned, rmtree_calls, engine, local, history>>
       \/ /\ Raise(c, "GatewayError", Append(log[c], Event("FREEZE", <<>>, <<"GatewayError">>)))
          /\ UNCHANGED <<fs, increment, chowned, rmtree_calls, engine, local>>

\* _freeze_table_compat, get_partitions: the partitions are listed once.
GetPartitions(c) ==
    /\ pc[c] = "_freeze_table_compat"
    /\ \/ /\ todo' = [todo EXCEPT ![c] = partitions]
          /\ pc' = [pc EXCEPT ![c] = "for_partition"]
          /\ log' = [log EXCEPT ![c] = Append(@, Event("SELECT partition", <<>>, partitions))]
          /\ UNCHANGED <<fs, increment, chowned, rmtree_calls, engine, calls, fs0, op, arg, caller,
                         freezed_parts, path, listing, parts, attempts, last_error, history>>
       \/ /\ Raise(c, "GatewayError",
                   Append(log[c], Event("SELECT partition", <<>>, <<"GatewayError">>)))
          /\ UNCHANGED <<fs, increment, chowned, rmtree_calls, engine, local>>

\* _freeze_table_compat: the loop head; the list is returned when it is exhausted.
ForPartition(c) ==
    /\ pc[c] = "for_partition"
    /\ IF todo[c] = <<>>
       THEN /\ Return(c, freezed_parts[c], log[c])
            /\ UNCHANGED <<fs, increment, chowned, rmtree_calls, engine, local>>
       ELSE /\ pc' = [pc EXCEPT ![c] = "freeze_partition"]
            /\ UNCHANGED <<fs, increment, chowned, rmtree_calls, engine, local, log, history>>

\* _freeze_table_compat has no handler around the FREEZE PARTITION query:
\* what a failure of it does to the loop.
on_partition_error_continue == "continue"

on_partition_error == "raise"

\* _freeze_table_compat: FREEZE PARTITION for the next partition.
FreezePartition(c) ==
    /\ pc[c] = "freeze_partition"
    /\ LET partition == Head(todo[c])
           issued == Append(log[c], Event("FREEZE PARTITION", <<partition>>,
                                          <<ToString(increment + 1)>>))
           failed == Append(log[c], Event("FREEZE PARTITION", <<partition>>, <<"GatewayError">>))
       IN  \/ /\ EngineFreeze(PartsOf(partition))
              /\ pc' = [pc EXCEPT ![c] = "_get_freezed_parts"]
              /\ log' = [log EXCEPT ![c] = issued]
              /\ UNCHANGED <<chowned, rmtree_calls, engine, local, history>>
           \/ IF on_partition_error = "raise"
              THEN /\ Raise(c, "GatewayError", failed)
                   /\ UNCHANGED <<fs, increment, chowned, rmtree_calls, engine, local>>
              ELSE /\ todo' = [todo EXCEPT ![c] = Tail(@)]
                   /\ pc' = [pc EXCEPT ![c] = "for_partition"]
                   /\ log' = [log EXCEPT ![c] = failed]
                   /\ UNCHANGED <<fs, increment, chowned, rmtree_calls, engine, calls, fs0,
                                  op, arg, caller, freezed_parts, path, listing, parts,
                                  attempts, last_error, history>>

\* _get_shadow_increment, were the marker kept from the time the controller
\* was built on an engine holding its first snapshot.
get_shadow_increment_cached(content) == ToString(1)

\* _get_shadow_increment: file.read().strip()
get_shadow_increment(content) == ToString(content)

\* _get_shadow_increment: the marker file is opened and read.
GetShadowIncrement(c) ==
    /\ pc[c] = "_get_freezed_parts"
    /\ IF increment_path \in fs
       THEN /\ path' = [path EXCEPT ![c] =
                           Join(shadow_data_path, <<get_shadow_increment(increment)>>)]
            /\ pc' = [pc EXCEPT ![c] = "_get_table_data_relpath"]
            /\ log' = [log EXCEPT ![c] =
                          Append(@, Event("read increment.txt",
                                          <<get_shadow_increment(increment)>>, <<>>))]
            /\ UNCHANGED <<fs, increment, chowned, rmtree_calls, engine, calls, fs0, op, arg, caller, todo,
                           freezed_parts, listing, parts, attempts, last_error, history>>
       ELSE /\ Raise(c, "FileNotFoundError", log[c])
            /\ UNCHANGED <<fs, increment, chowned, rmtree_calls, engine, local>>

\* The directory _get_freezed_parts resolves from the marker and the table's
\* data path, were the marker not part of it.
shadow_table_path_first(marker_dir, table_path) ==
    Join(Join(Join(shadow_data_path, <<"1">>), <<"data">>), Relpath(table_path, data_path))

\* The directory _get_freezed_parts resolves from the marker and the table's
\* data path.
shadow_table_path(marker_dir, table_path) ==
    Join(Join(marker_dir, <<"data">>), Relpath(table_path, data_path))

\* if not os.path.exists(path): return []
shadow_path_unchecked(files, dir) == FALSE

shadow_path_is_empty(files, dir) == ~exists(files, dir)

\* _get_freezed_parts: freezed_parts = [], were the list of the enumeration
\* before kept.
freezed_parts_kept(previous) == previous

\* _get_freezed_parts: freezed_parts = []
freezed_parts_new(previous) == <<>>

\* _get_freezed_parts: the data path is asked for, the directory resolved,
\* tested and listed.
ListShadow(c) ==
    /\ pc[c] = "_get_table_data_relpath"
    /\ \/ LET dir == shadow_table_path(path[c], table_data_path)
          IN  IF shadow_path_is_empty(fs, dir)
              THEN /\ path' = [path EXCEPT ![c] = dir]
                   /\ parts' = [parts EXCEPT ![c] = freezed_parts_new(@)]
                   /\ listing' = [listing EXCEPT ![c] = <<>>]
                   /\ pc' = [pc EXCEPT ![c] = "for_part"]
                   /\ log' = [log EXCEPT ![c] = Append(@, Event("absent", dir, <<>>))]
                   /\ UNCHANGED <<fs, increment, chowned, rmtree_calls, engine, calls, fs0,
                                  op, arg, caller, todo, freezed_parts, attempts, last_error, history>>
              ELSE IF ~exists(fs, dir)
              THEN \* os.listdir of a directory that is not there
                   /\ Raise(c, "FileNotFoundError", log[c])
                   /\ UNCHANGED <<fs, increment, chowned, rmtree_calls, engine, local>>
              ELSE \E order \in Orders(listdir(fs, dir)) :
                   /\ path' = [path EXCEPT ![c] = dir]
                   /\ parts' = [parts EXCEPT ![c] = freezed_parts_new(@)]
                   /\ listing' = [listing EXCEPT ![c] = order]
                   /\ pc' = [pc EXCEPT ![c] = "for_part"]
                   /\ log' = [log EXCEPT ![c] = Append(@, Event("listdir", dir, order))]
                   /\ UNCHANGED <<fs, increment, chowned, rmtree_calls, engine, calls, fs0,
                                  op, arg, caller, todo, freezed_parts, attempts, last_error, history>>
       \/ /\ Raise(c, "GatewayError", log[c])
          /\ UNCHANGED <<fs, increment, chowned, rmtree_calls, engine, local>>

\* _get_part_checksum, were it a digest over all the files of the part.
get_part_checksum_all_files(part) ==
    <<"md5", PartFiles(part)["checksums.txt"].content, PartFiles(part)["data.bin"].content>>

\* _get_part_checksum: the digest of the manifest file's bytes.
get_part_checksum(part) == <<"md5", PartFiles(part)["checksums.txt"].content>>

\* _get_part_size: the byte lengths of the files of the part directory, summed.
RECURSIVE SumSizes(_, _)
SumSizes(files, names) ==
    IF names = {} THEN 0
    ELSE LET n == CHOOSE x \in names : TRUE
         IN  files[n].size + SumSizes(files, names \ {n})

get_part_size(part) == SumSizes(PartFiles(part), DOMAIN PartFiles(part))

FreezedPart(part, part_path) ==
    [database |-> db_name, table |-> table_name, name |-> part, path |-> part_path,
     checksum |-> get_part_checksum(part), size |-> get_part_size(part)]

\* freezed_parts.extend(..), were it an assignment
extend_overwrite(list, more) == more

\* freezed_parts.extend(..)
extend(list, more) == list \o more

\* _get_freezed_parts: one turn of the loop over the listed names; at its
\* end the list goes back to the caller.
ForPart(c) ==
    /\ pc[c] = "for_part"
    /\ IF listing[c] # <<>>
       THEN LET part == Head(listing[c])
                part_path == Join(path[c], <<part>>)
            IN  IF exists(fs, part_path)
                THEN /\ parts' = [parts EXCEPT ![c] = Append(@, FreezedPart(part, part_path))]
                     /\ listing' = [listing EXCEPT ![c] = Tail(@)]
                     /\ UNCHANGED <<fs, increment, chowned, rmtree_calls, engine, pc, calls, fs0, op, arg, caller,
                                    todo, freezed_parts, path, attempts, last_error, log,
                                    history>>
                ELSE /\ Raise(c, "FileNotFoundError", log[c])
                     /\ UNCHANGED <<fs, increment, chowned, rmtree_calls, engine, local>>
       ELSE IF caller[c] = "_freeze_table"
            THEN /\ Return(c, parts[c], log[c])
                 /\ UNCHANGED <<fs, increment, chowned, rmtree_calls, engine, local>>
            ELSE /\ freezed_parts' = [freezed_parts EXCEPT ![c] = extend(@, parts[c])]
                 /\ todo' = [todo EXCEPT ![c] = Tail(@)]
                 /\ pc' = [pc EXCEPT ![c] = "for_partition"]
                 /\ UNCHANGED <<fs, increment, chowned, rmtree_calls, engine, calls, fs0, op, arg, caller, path,
                                listing, parts, attempts, last_error, log, history>>

\* ----------------------------------------------------------------- teardown

\* The calls that have ended, of all controllers.
Ended == UNION {{history[c][n] : n \in 1..Len(history[c])} : c \in Ctl}

\* The artifacts freeze_table calls have returned so far.
ReturnedParts ==
    UNION {{h.value[i] : i \in 1..Len(h.value)} : h \in {e \in Ended : e.op = "freeze_table"}}

\* remove_freezed_data: the whole snapshot root.
remove_freezed_data(c) ==
    Enter(c, "remove_freezed_data", shadow_data_path, "_remove_shadow_data")

\* remove_freezed_part: part.path, whatever the caller put there.
remove_freezed_part(c) ==
    \E target \in {a.path : a \in ReturnedParts} \cup ForeignPaths :
        Enter(c, "remove_freezed_part", target, "_remove_shadow_data")

\* assert path.startswith(self._shadow_data_path)
remove_guard_off(target) == TRUE

remove_guard(target) == startswith(target, shadow_data_path)

\* @retry(OSError): the exception types the decorator catches.
retried_transient_only(error) == error \in TransientFailures

retried(error) == IsOSError(error)

\* The decorator's policy: a caught error leads to another call of the
\* function until the attempts are used up.
retry_again(error, made) == retried(error) /\ made < MaxAttempts

\* try: shutil.rmtree(path) / except FileNotFoundError: pass
swallowed_nothing(error) == FALSE

swallowed(error) == error = "FileNotFoundError"

\* What one execution of _remove_shadow_data may come to: the error it ends
\* with, the files it leaves, and whether shutil.rmtree was called.
RemoveOutcomes(files, target) ==
    IF ~remove_guard(target)
    THEN {[error |-> "AssertionError", left |-> files, called |-> FALSE]}
    ELSE IF ~exists(files, target)
    THEN {[error |-> "FileNotFoundError", left |-> files, called |-> TRUE]}
    ELSE {[error |-> "none", left |-> rmtree(files, target), called |-> TRUE]}
         \cup [error : OSFailures, left : {files, rmtree_partial(files, target)},
               called : {TRUE}]

\* One execution of _remove_shadow_data under the retry decorator.
RemoveShadowData(c) ==
    /\ pc[c] = "_remove_shadow_data"
    /\ \E outcome \in RemoveOutcomes(fs, arg[c]) :
        /\ fs' = outcome.left
        /\ increment' = IF increment_path \in outcome.left THEN increment ELSE 0
        /\ rmtree_calls' = IF outcome.called THEN rmtree_calls \cup {arg[c]} ELSE rmtree_calls
        /\ attempts' = [attempts EXCEPT ![c] = @ + 1]
        /\ UNCHANGED <<chowned, engine, calls, fs0, op, arg, caller, todo, freezed_parts,
                       path, listing, parts>>
        /\ IF outcome.error = "none" \/ swallowed(outcome.error)
           THEN /\ Leave(c, "returned", "none", <<>>, log[c], attempts[c] + 1, outcome.left)
                /\ last_error' = [last_error EXCEPT ![c] = "none"]
           ELSE IF retry_again(outcome.error, attempts[c] + 1)
           THEN /\ last_error' = [last_error EXCEPT ![c] = outcome.error]
                /\ UNCHANGED <<pc, log, history>>
           ELSE /\ Leave(c, "raised", outcome.error, <<>>, log[c], attempts[c] + 1,
                         outcome.left)
                /\ last_error' = [last_error EXCEPT ![c] = "none"]

\* ------------------------------------------------------- ownership change

\* _get_table_detached_path
get_table_detached_path(table_path) == Join(table_path, <<"detached">>)

\* assert dir_path.startswith(self._data_path)
chown_guard(dir_path) == startswith(dir_path, data_path)

chown_detached_table_parts(c) ==
    Enter(c, "chown_detached_table_parts", <<>>, "_chown_dir")

\* chown_detached_table_parts: the data path is asked for, then _chown_dir.
ChownDir(c) ==
    /\ pc[c] = "_chown_dir"
    /\ \/ LET dir_path == get_table_detached_path(table_data_path)
          IN  IF chown_guard(dir_path)
              THEN /\ chowned' = chowned \cup {dir_path}
                   /\ Return(c, <<>>, log[c])
                   /\ UNCHANGED <<fs, increment, rmtree_calls, engine, local>>
              ELSE /\ Raise(c, "AssertionError", log[c])
                   /\ UNCHANGED <<fs, increment, chowned, rmtree_calls, engine, local>>
       \/ /\ Raise(c, "GatewayError", log[c])
          /\ UNCHANGED <<fs, increment, chowned, rmtree_calls, engine, local>>

\* ------------------------------------------------------------------ attach

\* Part names a caller may ask to attach.
AttachableParts == {"p1", "p3"}

\* attach_part has no handler around the ATTACH PART query: what a failure
\* of it leads to.
on_attach_error_retry == "retry"

on_attach_error == "raise"

attach_part(c) ==
    \E part_name \in AttachableParts : Enter(c, "attach_part", <<part_name>>, "attach_part")

\* attach_part: the one query; the engine attaches the part or answers with
\* an error.
AttachPart(c) ==
    /\ pc[c] = "attach_part"
    /\ LET issued == Append(log[c], Event("ATTACH PART", arg[c], <<>>))
           failed == Append(log[c], Event("ATTACH PART", arg[c], <<"GatewayError">>))
       IN  \/ /\ Return(c, <<>>, issued)
              /\ UNCHANGED <<fs, increment, chowned, rmtree_calls, engine, local>>
           \/ IF on_attach_error = "raise" \/ Len(failed) >= MaxAttempts
              THEN /\ Raise(c, "GatewayError", failed)
                   /\ UNCHANGED <<fs, increment, chowned, rmtree_calls, engine, local>>
              ELSE /\ log' = [log EXCEPT ![c] = failed]
                   /\ UNCHANGED <<fs, increment, chowned, rmtree_calls, engine, local, pc,
                                  history>>

\* ------------------------------------------------------------- get_version

get_version(c) == Enter(c, "get_version", <<>>, "get_version")

\* get_version: return self._ch_version
GetVersion(c) ==
    /\ pc[c] = "get_version"
    /\ Return(c, ch_version_read(c), log[c])
    /\ UNCHANGED <<fs, increment, chowned, rmtree_calls, engine, local>>

\* The engine is restarted as another release while controllers live on.
EngineUpgrade ==
    /\ engine_version' \in {ch_version[c] : c \in Ctl} \cup {MinVersion}
    /\ engine_version' # engine_version
    /\ UNCHANGED <<fs, increment, chowned, rmtree_calls, table_data_path, partitions, ctls,
                   ch_version, version_queries, local, pc, log, history>>

\* ------------------------------------------------------------ specification

Step(c) ==
    \/ freeze_table(c)
    \/ FreezeTable(c)
    \/ GetPartitions(c)
    \/ ForPartition(c)
    \/ FreezePartition(c)
    \/ GetShadowIncrement(c)
    \/ ListShadow(c)
    \/ ForPart(c)
    \/ remove_freezed_data(c)
    \/ remove_freezed_part(c)
    \/ RemoveShadowData(c)
    \/ chown_detached_table_parts(c)
    \/ ChownDir(c)

Next == \E c \in Ctl : Step(c)

Spec == Init /\ [][Next]_vars

SpecVersions == InitVersions /\ [][Next]_vars

\* One controller over its lifetime, all its operations, on an engine that
\* may be upgraded or downgraded under it.
InitLifetime ==
    Construct({1}, {<<"1", "8", ".", "1", "0", ".", "0">>, <<"1", "9", ".", "1", ".", "0">>},
              {engine_table_path}, {<<"202301">>})

NextLifetime ==
    \/ Next
    \/ \E c \in Ctl : attach_part(c) \/ AttachPart(c) \/ get_version(c) \/ GetVersion(c)
    \/ EngineUpgrade

SpecLifetime == InitLifetime /\ [][NextLifetime]_vars

\* Two controllers on one engine that has taken no snapshot yet, one table
\* of two partitions; each controller is called once.
InitConcurrent ==
    ConstructOn(Ctl, {<<"1", "8", ".", "1", "0", ".", "0">>, <<"1", "9", ".", "1", ".", "0">>},
                {engine_table_path}, {<<"202301", "202302">>}, 0, MaxCalls - 1)

\* The steps of freeze_table and of what it calls.
StepFreeze(c) ==
    \/ freeze_table(c)
    \/ FreezeTable(c)
    \/ GetPartitions(c)
    \/ ForPartition(c)
    \/ FreezePartition(c)
    \/ GetShadowIncrement(c)
    \/ ListShadow(c)
    \/ ForPart(c)

\* Both controllers freeze, in any interleaving of their steps.
NextFreeze == \E c \in Ctl : StepFreeze(c)

SpecFreeze == InitConcurrent /\ [][NextFreeze]_vars

\* Both controllers freeze and tear down, in any interleaving of their steps.
NextConcurrent ==
    \E c \in Ctl :
        \/ StepFreeze(c)
        \/ remove_freezed_data(c)
        \/ remove_freezed_part(c)
        \/ RemoveShadowData(c)

SpecConcurrent == InitConcurrent /\ [][NextConcurrent]_vars

\* ------------------------------------------------------------------ claims

\* The calls of one method that have ended.
EndedOf(method) == {h \in Ended : h.op = method}

Cmds(events) == {events[i].cmd : i \in 1..Len(events)}

\* Major, minor and patch number of each version string, read by hand.
C1_Release(v) ==
    CASE v = <<"1", "8", ".", "5", ".", "0">> -> <<18, 5, 0>>
      [] v = <<"1", "8", ".", "1", "5", ".", "9">> -> <<18, 15, 9>>
      [] v = <<"1", "8", ".", "1", "0", ".", "0">> -> <<18, 10, 0>>
      [] v = <<"1", "8", ".", "1", "6">> -> <<18, 16, 0>>
      [] v = <<"1", "8", ".", "1", "6", ".", "0">> -> <<18, 16, 0>>
      [] v = <<"1", "8", ".", "1", "6", ".", "1">> -> <<18, 16, 1>>
      [] v = <<"1", "9", ".", "1", ".", "0">> -> <<19, 1, 0>>
      [] v = <<"9", ".", "1", ".", "0">> -> <<9, 1, 0>>

C1_AtLeastThreshold(v) ==
    LET r == C1_Release(v)
    IN  r[1] > 18 \/ (r[1] = 18 /\ r[2] > 16) \/ (r[1] = 18 /\ r[2] = 16 /\ r[3] >= 0)

\* C1: freeze_table takes the whole-table path (its first command is one
\* FREEZE of the table, and no partition is listed or frozen) exactly when
\* the cached version is at least 18.16.0 in semantic-version order; below
\* it, the partitions are listed and only FREEZE PARTITION is issued.
C1_StrategyBySemver ==
    \A c \in ctls :
        /\ (op[c] = "freeze_table" /\ pc[c] # "idle") =>
              (caller[c] = "_freeze_table" <=> C1_AtLeastThreshold(ch_version[c]))
        /\ \A n \in 1..Len(history[c]) :
              LET h == history[c][n]
              IN  h.op = "freeze_table" =>
                    IF C1_AtLeastThreshold(ch_version[c])
                    THEN h.log[1].cmd = "FREEZE"
                         /\ Cmds(h.log) \cap {"SELECT partition", "FREEZE PARTITION"} = {}
                    ELSE h.log[1].cmd = "SELECT partition" /\ "FREEZE" \notin Cmds(h.log)

\* C1 happens: a controller of version 18.5.0, lexically above 18.16.0, has
\* frozen a table partition by partition.
C1_Witness ==
    /\ ch_version[1] = <<"1", "8", ".", "5", ".", "0">>
    /\ \E h \in {history[1][n] : n \in 1..Len(history[1])} :
          h.op = "freeze_table" /\ h.status = "returned" /\ "FREEZE PARTITION" \in Cmds(h.log)

Teardown == {"remove_freezed_data", "remove_freezed_part"}

\* C2: a teardown path that does not start with the snapshot root, and an
\* ownership-change target that does not start with the data root, is
\* refused before anything is done: shutil.rmtree and chown_dir_contents are
\* never called with such a path, the call raises AssertionError after one
\* execution (no retry), and the files are what they were when it began.
C2_RejectedBeforeAnySyscall ==
    /\ \A p \in rmtree_calls : startswith(p, shadow_data_path)
    /\ \A p \in chowned : startswith(p, data_path)
    /\ \A h \in Ended :
          /\ (h.op \in Teardown /\ ~startswith(h.arg, shadow_data_path)) =>
                /\ h.status = "raised" /\ h.error = "AssertionError"
                /\ h.attempts = 1
                /\ h.after = h.before
          /\ (h.op = "chown_detached_table_parts"
                 /\ ~startswith(Join(table_data_path, <<"detached">>), data_path)) =>
                /\ h.status = "raised" /\ h.error \in {"AssertionError", "GatewayError"}
                /\ h.after = h.before

\* C2 happens: a removal of the existing path /o/x was refused, and so was
\* the ownership change of a table on another disk.
C2_Witness ==
    /\ \E h \in EndedOf("remove_freezed_part") :
          h.arg = outside_path /\ h.error = "AssertionError" /\ outside_path \in h.after
    /\ \E h \in EndedOf("chown_detached_table_parts") : h.error = "AssertionError"

\* C3: every artifact freeze_table returned has its path strictly inside the
\* snapshot root directory, and every path handed to chown_dir_contents lies
\* strictly inside the data root directory.
C3_PathsInsideRoots ==
    /\ \A a \in ReturnedParts : IsUnder(a.path, shadow_data_path)
    /\ \A p \in chowned : IsUnder(p, data_path)

\* The artifact half of C3 alone.
C3_ArtifactsInsideShadowRoot == \A a \in ReturnedParts : IsUnder(a.path, shadow_data_path)

\* C4: removal is idempotent. A teardown of a path below the snapshot root
\* that is not there returns without error after one execution and leaves
\* the files as they were; and when a teardown returned, the same teardown
\* called again right after it returns too, after one execution, and leaves
\* the files the first call left.
C4_RemovalIdempotent ==
    \A c \in ctls :
        /\ \A n \in 1..Len(history[c]) :
              LET h == history[c][n]
              IN  (h.op \in Teardown /\ startswith(h.arg, shadow_data_path)
                      /\ ~exists(h.before, h.arg)) =>
                     (h.status = "returned" /\ h.attempts = 1 /\ h.after = h.before)
        /\ Len(history[c]) = 2 =>
              LET first == history[c][1]
                  second == history[c][2]
              IN  (first.op \in Teardown /\ second.op = first.op /\ second.arg = first.arg
                      /\ first.status = "returned") =>
                     (second.status = "returned" /\ second.attempts = 1
                         /\ second.after = first.after)

\* C4 happens: remove_freezed_data deleted the snapshot root and returned,
\* and was called again and returned.
C4_Witness ==
    /\ Len(history[1]) = 2
    /\ history[1][1].op = "remove_freezed_data" /\ history[1][1].status = "returned"
    /\ shadow_data_path \in history[1][1].before
    /\ history[1][2].op = "remove_freezed_data" /\ history[1][2].status = "returned"

C6_BoundedAttempts ==
    /\ \A c \in ctls : pc[c] = "_remove_shadow_data" => attempts[c] < MaxAttempts
    /\ \A h \in Ended :
          h.op \in Teardown =>
              /\ h.attempts <= MaxAttempts
              /\ (h.status = "raised" /\ h.error \in TransientFailures) =>
                     h.attempts = MaxAttempts
              /\ h.status = "returned" => ~exists(h.after, h.arg)

\* C6 happens: one teardown gave up after MaxAttempts transient failures,
\* the next one succeeded on a later attempt than its first.
C6_Witness ==
    /\ Len(history[1]) = 2
    /\ history[1][1].op \in Teardown /\ history[1][1].error \in TransientFailures
    /\ history[1][1].attempts = MaxAttempts
    /\ history[1][2].op \in Teardown /\ history[1][2].status = "returned"
    /\ history[1][2].attempts > 1
    /\ exists(history[1][2].before, history[1][2].arg)

Enumerations == {"listdir", "absent"}

\* C7: a freeze_table call whose gateway commands all succeeded and whose
\* enumerations found no part (the resolved directory was absent or empty,
\* or the table had no partition to freeze) returned the empty list and did
\* not raise.
C7_EmptySnapshotIsEmptyList ==
    \A h \in EndedOf("freeze_table") :
        (h.error # "GatewayError"
            /\ \A i \in 1..Len(h.log) : h.log[i].cmd = "listdir" => h.log[i].found = <<>>) =>
            (h.status = "returned" /\ h.value = <<>>)

\* C7 happens: the whole table was frozen, the resolved snapshot directory
\* was not there, and the call returned the empty list.
C7_Witness ==
    \E h \in EndedOf("freeze_table") :
        /\ h.status = "returned" /\ h.value = <<>>
        /\ {"FREEZE", "absent"} \subseteq Cmds(h.log)

\* The paths of the artifacts that the enumerations of a log found, in order.
RECURSIVE C8_Enumerated(_, _)
C8_Enumerated(events, k) ==
    IF k > Len(events) THEN <<>>
    ELSE (IF events[k].cmd \in Enumerations
          THEN [i \in 1..Len(events[k].found) |-> Join(events[k].what, <<events[k].found[i]>>)]
          ELSE <<>>) \o C8_Enumerated(events, k + 1)

\* The log of a per-partition call, as far as it has come: the listing, then
\* per partition of the listing and in its order one FREEZE PARTITION, one
\* read of the marker and one enumeration of the directory of that marker.
C8_InOrder(events) ==
    LET P == events[1].found
    IN  /\ events[1].cmd = "SELECT partition"
        /\ Len(events) <= 1 + 3 * Len(P)
        /\ \A k \in 2..Len(events) :
              CASE k % 3 = 2 ->
                     /\ events[k].cmd = "FREEZE PARTITION"
                     /\ events[k].what = <<P[(k + 1) \div 3]>>
                [] k % 3 = 0 -> events[k].cmd = "read increment.txt"
                [] OTHER ->
                     /\ events[k].cmd \in Enumerations
                     /\ SubSeq(events[k].what, 1, Len(shadow_data_path) + 1) =
                            shadow_data_path \o events[k - 1].what

\* C8: on the per-partition path the commands follow the listing, one
\* FREEZE PARTITION per partition in listing order, each followed by one
\* marker read and one enumeration before the next, and the call returns
\* the concatenation of all the enumerations.
C8_OnePerPartitionInOrder ==
    \A c \in ctls :
        /\ (caller[c] = "_freeze_table_compat" /\ Len(log[c]) > 0
               /\ log[c][Len(log[c])].found # <<"GatewayError">>) => C8_InOrder(log[c])
        /\ \A n \in 1..Len(history[c]) :
              LET h == history[c][n]
              IN  (h.op = "freeze_table" /\ h.status = "returned"
                      /\ h.log[1].cmd = "SELECT partition") =>
                     /\ C8_InOrder(h.log)
                     /\ h.log[1].found = partitions
                     /\ Len(h.log) = 1 + 3 * Len(partitions)
                     /\ [i \in 1..Len(h.value) |-> h.value[i].path] = C8_Enumerated(h.log, 1)

\* C8 happens: a table of two partitions was frozen partition by partition
\* and the call returned the parts of both.
C8_Witness ==
    \E h \in EndedOf("freeze_table") :
        /\ h.status = "returned"
        /\ h.log[1].cmd = "SELECT partition" /\ Len(h.log[1].found) = 2
        /\ {h.value[i].name : i \in 1..Len(h.value)} = {"p1", "p2", "p3"}

\* C9: when the FREEZE PARTITION of a partition fails, that is the last
\* thing the call does: it raises the gateway's error, returns no list,
\* issues no further command, deletes nothing, and the snapshot directories
\* of the partitions frozen before it are still there.
C9_NoPartialSuccess ==
    \A c \in ctls :
        /\ \A k \in 1..Len(log[c]) :
              (log[c][k].cmd = "FREEZE PARTITION" /\ log[c][k].found = <<"GatewayError">>) =>
                 /\ k = Len(log[c])
                 /\ pc[c] = "idle"
                 /\ history[c][Len(history[c])].log = log[c]
        /\ \A n \in 1..Len(history[c]) :
              LET h == history[c][n]
                  last == h.log[Len(h.log)]
              IN  (h.op = "freeze_table" /\ last.cmd = "FREEZE PARTITION"
                      /\ last.found = <<"GatewayError">>) =>
                     /\ h.status = "raised" /\ h.error = "GatewayError" /\ h.value = <<>>
                     /\ \A k \in 1..(Len(h.log) - 1) : h.log[k].found # <<"GatewayError">>
                     /\ h.before \subseteq h.after
                     /\ \A i \in 1..Len(C8_Enumerated(h.log, 1)) :
                           exists(h.after, C8_Enumerated(h.log, 1)[i])

\* C9 happens: the second partition's FREEZE PARTITION failed after the
\* first partition's parts had been enumerated.
C9_Witness ==
    \E h \in EndedOf("freeze_table") :
        /\ h.error = "GatewayError"
        /\ Len(h.log) = 5 /\ h.log[5].cmd = "FREEZE PARTITION"
        /\ Len(C8_Enumerated(h.log, 1)) = 2

\* The markers a call read, as numbers.
C10_Markers(h) ==
    {CHOOSE g \in 0..(MaxGen + 1) : ToString(g) = h.log[i].what[1] :
        i \in {k \in 1..Len(h.log) : h.log[k].cmd = "read increment.txt"}}

\* C10: of two freeze_table calls made one right after the other on one
\* controller, the second returns no artifact path the first returned, and
\* every marker it read is larger than every marker the first read.
C10_SuccessivePathsDiffer ==
    \A c \in ctls :
        (Len(history[c]) = 2
            /\ history[c][1].op = "freeze_table" /\ history[c][1].status = "returned"
            /\ history[c][2].op = "freeze_table" /\ history[c][2].status = "returned") =>
            LET first == history[c][1]
                second == history[c][2]
            IN  /\ {first.value[i].path : i \in 1..Len(first.value)}
                      \cap {second.value[i].path : i \in 1..Len(second.value)} = {}
                /\ \A g1 \in C10_Markers(first), g2 \in C10_Markers(second) : g1 < g2

\* C10 happens: a table with parts was frozen twice in a row and both calls
\* returned artifacts.
C10_Witness ==
    /\ Len(history[1]) = 2
    /\ history[1][1].op = "freeze_table" /\ history[1][1].value # <<>>
    /\ history[1][2].op = "freeze_table" /\ history[1][2].value # <<>>

\* C11: attach_part issues exactly one ATTACH PART command, for the part it
\* was given; it calls neither shutil.rmtree nor chown_dir_contents and
\* leaves the files as they were; when the gateway fails the call raises the
\* gateway's error at once, without a second command.
C11_OneAttachNoRetry ==
    /\ \A c \in ctls : (op[c] = "attach_part" /\ pc[c] # "idle") => log[c] = <<>>
    /\ \A h \in EndedOf("attach_part") :
          /\ Len(h.log) = 1
          /\ h.log[1].cmd = "ATTACH PART" /\ h.log[1].what = h.arg
          /\ h.after = h.before
          /\ h.attempts = 0
          /\ IF h.log[1].found = <<"GatewayError">>
             THEN h.status = "raised" /\ h.error = "GatewayError"
             ELSE h.status = "returned"

\* C11 happens: an attach of p1 failed at the gateway and the error reached
\* the caller; the attach was called again and went through.
C11_Witness ==
    /\ Len(history[1]) = 2
    /\ history[1][1].op = "attach_part" /\ history[1][1].arg = <<"p1">>
    /\ history[1][1].error = "GatewayError"
    /\ history[1][2].op = "attach_part" /\ history[1][2].arg = <<"p1">>
    /\ history[1][2].status = "returned"

FreezeCommands == {"FREEZE", "FREEZE PARTITION"}

\* In a log, every enumeration is of the generation directory that the
\* freeze command before it created.
C12_Attributed(events) ==
    \A k \in 1..Len(events) :
        events[k].cmd \in Enumerations =>
            /\ k > 2
            /\ events[k - 2].cmd \in FreezeCommands
            /\ SubSeq(events[k].what, 1, Len(shadow_data_path) + 1) =
                   shadow_data_path \o events[k - 2].found

\* C12: with several controllers freezing on one engine, the directory a
\* freeze_table call enumerates after one of its freeze commands is the
\* generation directory this very command created, in every interleaving.
C12_NeverMisattributed ==
    /\ \A c \in ctls : C12_Attributed(log[c])
    /\ \A h \in EndedOf("freeze_table") : C12_Attributed(h.log)

\* In a log, as far as it has come: a freeze command that went through is
\* followed by a read of the marker that finds the generation the command
\* just created, and the read by one enumeration below the directory of the
\* value read; there is no read and no enumeration elsewhere.
C13_ReadPerCommand(events) ==
    \A k \in 1..Len(events) :
        /\ (events[k].cmd \in FreezeCommands /\ k < Len(events)) =>
               /\ events[k + 1].cmd = "read increment.txt"
               /\ events[k + 1].what = events[k].found
        /\ events[k].cmd = "read increment.txt" =>
               /\ k > 1 /\ events[k - 1].cmd \in FreezeCommands
               /\ k < Len(events) => events[k + 1].cmd \in Enumerations
        /\ events[k].cmd \in Enumerations =>
               /\ k > 1 /\ events[k - 1].cmd = "read increment.txt"
               /\ SubSeq(events[k].what, 1, Len(shadow_data_path) + 2) =
                      shadow_data_path \o events[k - 1].what \o <<"data">>

\* C13: the marker is never kept across freeze commands. On both paths
\* every freeze command is followed by a read of the marker file before the
\* enumeration for that command, and the enumeration is of the directory of
\* the value just read; a whole-table call that returned issued one FREEZE,
\* read the marker once, enumerated shadow/<marker>/data/<table's relative
\* path> once and returned one artifact per name listed there, with the
\* call's database and table.
C13_MarkerNeverCached ==
    /\ \A c \in ctls : C13_ReadPerCommand(log[c])
    /\ \A h \in EndedOf("freeze_table") :
          /\ C13_ReadPerCommand(h.log)
          /\ h.status = "returned" =>
                \A k \in 1..Len(h.log) :
                    h.log[k].cmd \in FreezeCommands =>
                        k + 2 <= Len(h.log) /\ h.log[k + 2].cmd \in Enumerations
          /\ (h.status = "returned" /\ h.log[1].cmd = "FREEZE") =>
                /\ Len(h.log) = 3
                /\ h.log[3].what =
                       shadow_data_path \o h.log[2].what \o <<"data">>
                           \o Relpath(table_data_path, data_path)
                /\ table_data_path = engine_table_path =>
                       h.log[3].what =
                           shadow_data_path \o h.log[2].what \o <<"data", db_name, table_name>>
                /\ Len(h.value) = Len(h.log[3].found)
                /\ \A i \in 1..Len(h.value) :
                       /\ h.value[i].name = h.log[3].found[i]
                       /\ h.value[i].path = Join(h.log[3].what, <<h.log[3].found[i]>>)
                       /\ h.value[i].database = db_name
                       /\ h.value[i].table = table_name

\* C13 happens: the whole table was frozen twice in a row; the two calls
\* read different markers and each returned the two parts of its own
\* generation.
C13_Witness ==
    /\ Len(history[1]) = 2
    /\ \A n \in 1..2 :
          /\ history[1][n].op = "freeze_table" /\ history[1][n].status = "returned"
          /\ history[1][n].log[1].cmd = "FREEZE"
          /\ {history[1][n].value[i].name : i \in 1..Len(history[1][n].value)} = {"p1", "p2"}
    /\ history[1][1].log[2].what # history[1][2].log[2].what

\* C14: a part directory that another controller's teardown deletes after
\* the enumeration has listed it, and before its checksum and size are
\* computed, is treated as not present: a freeze_table call whose last
\* command or read was a listing does not end with an error, it returns a
\* list.
C14_VanishedPartIsSkipped ==
    \A h \in EndedOf("freeze_table") :
        (h.log # <<>> /\ h.log[Len(h.log)].cmd = "listdir") =>
            (h.status = "returned" /\ h.error # "FileNotFoundError")

\* C15: the marker file is read-only for the controller. In a step that is
\* not the engine's execution of a freeze command, whatever operation the
\* controllers are in, the file shadow/increment.txt neither appears nor
\* disappears and its content stays what it was.
C15_MarkerFileReadOnly ==
    [][(\A c \in ctls : pc[c] \notin {"_freeze_table", "freeze_partition"}) =>
           /\ increment' = increment
           /\ (increment_path \in fs') <=> (increment_path \in fs)]_vars

\* The strategy a freeze_table call took, read from its first command.
C16_Strategy(events) == IF events[1].cmd = "FREEZE" THEN "whole" ELSE "compat"

\* C16: over the lifetime of a controller the version query was issued
\* once, at construction; every get_version call returned the value kept
\* since then, and every freeze_table call took the strategy of that value,
\* whatever version the engine has become.
C16_VersionFetchedOnce ==
    \A c \in ctls :
        /\ version_queries[c] = 1
        /\ (op[c] = "freeze_table" /\ pc[c] # "idle") =>
               (caller[c] = "_freeze_table" <=> match_ch_version(ch_version[c], MinVersion))
        /\ \A n \in 1..Len(history[c]) :
               LET h == history[c][n]
               IN  /\ h.op = "get_version" => (h.status = "returned" /\ h.value = ch_version[c])
                   /\ (h.op = "freeze_table" /\ h.log # <<>>) =>
                          (C16_Strategy(h.log) = "whole"
                              <=> match_ch_version(ch_version[c], MinVersion))
        /\ \A m, n \in 1..Len(history[c]) :
               /\ (history[c][m].op = "get_version" /\ history[c][n].op = "get_version") =>
                      history[c][m].value = history[c][n].value
               /\ (history[c][m].op = "freeze_table" /\ history[c][n].op = "freeze_table"
                       /\ history[c][m].log # <<>> /\ history[c][n].log # <<>>) =>
                      C16_Strategy(history[c][m].log) = C16_Strategy(history[c][n].log)

\* C16 happens: the engine, 18.10.0 when the controller was built, is now
\* 19.1.0; get_version still returned 18.10.0 and the freeze_table call
\* after it froze partition by partition.
C16_Witness ==
    /\ ch_version[1] = <<"1", "8", ".", "1", "0", ".", "0">>
    /\ engine_version = <<"1", "9", ".", "1", ".", "0">>
    /\ Len(history[1]) = 2
    /\ history[1][1].op = "get_version" /\ history[1][1].value = ch_version[1]
    /\ history[1][2].op = "freeze_table" /\ history[1][2].status = "returned"
    /\ "FREEZE PARTITION" \in Cmds(history[1][2].log)

\* The content of the manifest file of a part.
C17_Manifest(part) == PartFiles(part)["checksums.txt"].content

\* C17: the checksum of an artifact is the digest of the content of the
\* part's manifest file and of nothing else: artifacts of parts with equal
\* manifests have equal checksums whatever their data files hold, artifacts
\* of parts with different manifests have the digests of those different
\* contents, and a part enumerated again has the checksum it had.
C17_ChecksumOfManifestOnly ==
    /\ \A a \in ReturnedParts : a.checksum = <<"md5", C17_Manifest(a.name)>>
    /\ \A a, b \in ReturnedParts :
          /\ C17_Manifest(a.name) = C17_Manifest(b.name) => a.checksum = b.checksum
          /\ C17_Manifest(a.name) # C17_Manifest(b.name) => a.checksum # b.checksum
          /\ a.name = b.name => a.checksum = b.checksum

\* C17 happens: p1 and p2, whose manifests are equal and whose data files
\* differ, were returned with one checksum, p3 with another, and p1 was
\* enumerated in two generations.
C17_Witness ==
    /\ \E a, b \in ReturnedParts :
          /\ a.name = "p1" /\ b.name = "p2" /\ a.checksum = b.checksum
          /\ PartFiles("p1")["data.bin"].content # PartFiles("p2")["data.bin"].content
    /\ \E a, b \in ReturnedParts : a.name = "p1" /\ b.name = "p1" /\ a.path # b.path
    /\ \E a, b \in ReturnedParts : a.name = "p1" /\ b.name = "p3" /\ a.checksum # b.checksum

\* The path itself or a place below it.
C18_InSubtree(f, target) == f = Normpath(target) \/ IsUnder(f, target)

\* C18: in every step of a remove_freezed_part call on the path of an
\* artifact that freeze_table returned, only paths of the subtree at that
\* path go away and nothing appears: every other returned artifact keeps its
\* directory, the marker file stays with its content, and the table's live
\* data is what it was.
C18_RemovesOnlyThePart ==
    [][\A c \in ctls :
          (pc[c] = "_remove_shadow_data" /\ op[c] = "remove_freezed_part"
              /\ arg[c] \in {a.path : a \in ReturnedParts}) =>
             /\ fs' \subseteq fs
             /\ \A f \in fs : ~C18_InSubtree(f, arg[c]) => f \in fs'
             /\ \A b \in ReturnedParts :
                   (b.path # arg[c] /\ exists(fs, b.path)) => exists(fs', b.path)
             /\ increment' = increment
             /\ (increment_path \in fs') <=> (increment_path \in fs)
             /\ \A f \in fs : C18_InSubtree(f, data_path) => f \in fs']_vars

\* C18 happens: freeze_table returned two artifacts, remove_freezed_part
\* deleted the directory of one of them, and the other one's is still there.
C18_Witness ==
    /\ Len(history[1]) = 2
    /\ history[1][1].op = "freeze_table" /\ Len(history[1][1].value) = 2
    /\ history[1][2].op = "remove_freezed_part" /\ history[1][2].status = "returned"
    /\ history[1][2].arg = history[1][1].value[1].path
    /\ exists(history[1][2].before, history[1][2].arg)
    /\ ~exists(fs, history[1][1].value[1].path)
    /\ exists(fs, history[1][1].value[2].path)

\* No path occurs twice among the artifacts of a list.
C19_PathsDistinct(list) ==
    \A i, j \in 1..Len(list) : list[i].path = list[j].path => i = j

\* C19: on the per-partition path, whatever freeze commands other
\* controllers issue in between, the list a freeze_table call has gathered
\* and the list it returns hold no artifact path twice.
C19_NoDuplicatePath ==
    /\ \A c \in ctls :
          (op[c] = "freeze_table" /\ caller[c] = "_freeze_table_compat" /\ pc[c] # "idle") =>
             /\ C19_PathsDistinct(freezed_parts[c])
             /\ pc[c] = "for_part" => C19_PathsDistinct(freezed_parts[c] \o parts[c])
    /\ \A h \in EndedOf("freeze_table") :
          h.log[1].cmd = "SELECT partition" => C19_PathsDistinct(h.value)

\* C19 happens: controller 1 froze two partitions one by one while
\* controller 2 froze too; after its second command it read a marker that
\* was not its own, and it returned the parts of both its enumerations.
C19_Witness ==
    \E h \in {history[1][n] : n \in 1..Len(history[1])} :
        /\ h.op = "freeze_table" /\ h.status = "returned"
        /\ h.log[1].cmd = "SELECT partition" /\ Len(h.log) = 7
        /\ h.log[4].found # <<>>
        /\ h.log[6].what # h.log[5].found
        /\ Len(h.value) > Len(h.log[4].found)
        /\ \E e \in EndedOf("freeze_table") : e # h /\ Cmds(e.log) \cap FreezeCommands # {}

====
